---- MODULE Spec2Model ----
(***************************************************************************)
(* Model of talkto's in-memory cache (src/infra/local_cache.py) and of the *)
(* cached read paths of the datastore adapter                              *)
(* (src/infra/supabase_client.py).                                         *)
(*                                                                         *)
(* An OrderedDict is a sequence of [key, value] entries, the stale end     *)
(* first; a plain dict is a function whose DOMAIN is its key set.  A       *)
(* LocalCache object is a record of its four attributes.  The methods are  *)
(* operators from the object (and the clock reading) to the object after   *)
(* the call and the value returned or the exception raised.                *)
(***************************************************************************)
EXTENDS Integers, Sequences, FiniteSets, TLC

(***************************************************************************)
(* Bounds of the model.                                                    *)
(***************************************************************************)
NumKeys == 3
NumValues == 2
MaxCapacity == 2
Ttl == 1
MaxCalls == 4
NumThreads == 2
MaxThreadCalls == 3
MaxUsers == 2
NumPhones == 2
CachedMaxSize == 2
MaxClientCalls == 4

MaxMessages == 3
MaxLimit == 2
MaxMessageCalls == 4

Keys == 1..NumKeys
Values == {[v |-> i] : i \in 1..NumValues}
MaxTime == Ttl + 1
Threads == 1..NumThreads
UserIds == 1..MaxUsers
Phones == {"+" \o ToString(i) : i \in 1..NumPhones}

Limits == 1..MaxLimit
Roles == {"user", "assistant"}
Contents == {"hi"}
Characters == {"Leonardo da Vinci", "Karl Marx"}
Replies == {[text |-> "reply"]}

\* Python's None, and an exception leaving a call.
None == [none |-> TRUE]
KeyError == [raised |-> "KeyError"]
Failure == [raised |-> "Exception"]

\* a call returning x
Returned(x) == [returned |-> x]

VARIABLES
    lc,        \* the LocalCache object: cache, timestamps, max_size, ttl
    now,       \* the reading of time.time()
    last,      \* the last step: [op, key, value], and had: the key was
               \* stored when the call began
    prev,      \* self._cache as it was when the last call began
    lcPrev,    \* the LocalCache object as it was when the last call began
    result,    \* what the last call returned or raised (None after a tick)
    touch,     \* per key, the number of the call that last touched it
    setAt,     \* per key, the clock reading at its most recent set (-1: none)
    calls,     \* the number of calls made so far
    onlySets,  \* every call so far was a set of a key never set before
    th,        \* per thread, the call it is in: [pc, key, value, tmp]
    raised,    \* a call of some thread has raised an exception
    local_users,              \* SupabaseClient.local_users: id -> User
    next_user_id,             \* SupabaseClient.next_user_id
    get_user_cache,           \* get_user.cache
    get_user_by_phone_cache,  \* get_user_by_phone.cache
    dbLast,    \* the last call made on the client
    dbResult,  \* what that call returned
    pending,   \* per id and per phone, the user that the last save_user
               \* for it wrote to the store, until it is read
    seen,      \* per cached function, the arguments it was called with
    memo,      \* per cached function and argument, the call that last
               \* invoked the function, until the entry is removed
    dbPrev,    \* per cached function, its cache when the last call on the
               \* client began
    manual,    \* per cached function and argument, the cache.set that
               \* outside code made for the key of the argument, until the
               \* entry is removed or written by the wrapper
    failed,    \* per cached function, the arguments whose last call raised
    local_messages,   \* SupabaseClient.local_messages: user id -> messages
    next_message_id,  \* SupabaseClient.next_message_id
    msgLast,   \* the last message operation: [op, user_id, character,
               \* failed, completionFailed], and n: its number among the
               \* calls
    msgResult, \* what it returned or raised
    msgSent,   \* the list the last process_message passed to get_completion
    msgPrev,   \* local_messages and local_users when the last message
               \* operation began
    usersPrev, \* local_users when the last call on the client began
    cleared,   \* per cached function, the arguments not read since the
               \* last clear_cache
    saved,     \* the user and the cache_only of the last call, if it was a
               \* save_user
    cRead      \* about the last cached read: the cache.set found in manual,
               \* if made at most ttl ago, whether the call before it
               \* with the argument raised, the clock reading, and whether
               \* the cache was cleared since the call before it with the
               \* argument

seqVars == <<last, prev, lcPrev, result, touch, setAt, onlySets>>
thVars == <<th, raised>>
dbVars == <<local_users, next_user_id, get_user_cache,
            get_user_by_phone_cache, dbLast, dbResult, pending, seen,
            memo, dbPrev, manual, failed, cRead, usersPrev, cleared, saved>>
msgVars == <<local_messages, next_message_id, msgLast, msgResult, msgSent,
             msgPrev>>
vars == <<lc, now, last, prev, lcPrev, result, touch, setAt, calls, onlySets, th, raised,
          local_users, next_user_id, get_user_cache, get_user_by_phone_cache,
          dbLast, dbResult, pending, seen, memo, dbPrev, manual, failed,
          cRead, local_messages, next_message_id, msgLast, msgResult,
          msgSent, msgPrev, usersPrev, cleared, saved>>

(***************************************************************************)
(* OrderedDict and dict primitives.                                        *)
(***************************************************************************)
\* the keys of an OrderedDict
KeysOf(od) == {od[i].key : i \in 1..Len(od)}

\* key in od
Contains(od, key) == \E i \in 1..Len(od) : od[i].key = key

\* the position of key in od (key is in od)
IndexOf(od, key) == CHOOSE i \in 1..Len(od) : od[i].key = key

\* od[key]
ValueOf(od, key) == od[IndexOf(od, key)].value

\* od without the entry at position i
RemoveAt(od, i) == SubSeq(od, 1, i - 1) \o SubSeq(od, i + 1, Len(od))

\* od after od.pop(key) (key is in od)
Pop(od, key) == RemoveAt(od, IndexOf(od, key))

\* od after od.popitem(last=False) (od is not empty)
PopItemFirst(od) == Tail(od)

\* od after od[key] = value: a new key goes to the end, a present key keeps
\* its position
SetItem(od, key, value) ==
    IF Contains(od, key)
    THEN [od EXCEPT ![IndexOf(od, key)].value = value]
    ELSE Append(od, [key |-> key, value |-> value])

\* d after d[key] = value
DictSet(d, key, value) ==
    [k \in DOMAIN d \cup {key} |-> IF k = key THEN value ELSE d[k]]

\* d after d.pop(key)
DictPop(d, key) == [k \in DOMAIN d \ {key} |-> d[k]]

\* the empty dict
EmptyDict == [k \in {} |-> 0]

(***************************************************************************)
(* LocalCache.                                                             *)
(***************************************************************************)
\* LocalCache.__init__
LocalCache(max_size, ttl) ==
    [cache |-> <<>>, max_size |-> max_size, ttl |-> ttl,
     timestamps |-> EmptyDict]

\* delete that removes the value and leaves the timestamp
delete_keepTimestamp(self, key) ==
    IF Contains(self.cache, key)
    THEN [self |-> [self EXCEPT !.cache = Pop(self.cache, key)],
          result |-> None]
    ELSE [self |-> self, result |-> None]

\* LocalCache.delete
delete(self, key) ==
    IF Contains(self.cache, key)
    THEN IF key \in DOMAIN self.timestamps
         THEN [self |-> [self EXCEPT !.cache = Pop(self.cache, key),
                                     !.timestamps = DictPop(self.timestamps, key)],
               result |-> None]
         ELSE [self |-> [self EXCEPT !.cache = Pop(self.cache, key)],
               result |-> KeyError]
    ELSE [self |-> self, result |-> None]

\* get that gives a key it returns a fresh timestamp
get_refresh(self, key, time) ==
    IF ~Contains(self.cache, key)
    THEN [self |-> self, result |-> None]
    ELSE IF key \notin DOMAIN self.timestamps
    THEN [self |-> self, result |-> KeyError]
    ELSE IF time - self.timestamps[key] > self.ttl
    THEN [self |-> delete(self, key).self,
          result |-> IF delete(self, key).result = KeyError
                     THEN KeyError ELSE None]
    ELSE [self |-> [self EXCEPT !.cache =
                        SetItem(Pop(self.cache, key), key,
                                ValueOf(self.cache, key)),
                                !.timestamps =
                        DictSet(self.timestamps, key, time)],
          result |-> ValueOf(self.cache, key)]

\* get with the expiry test written >= instead of >
get_expireAtTtl(self, key, time) ==
    IF ~Contains(self.cache, key)
    THEN [self |-> self, result |-> None]
    ELSE IF key \notin DOMAIN self.timestamps
    THEN [self |-> self, result |-> KeyError]
    ELSE IF time - self.timestamps[key] >= self.ttl
    THEN [self |-> delete(self, key).self,
          result |-> IF delete(self, key).result = KeyError
                     THEN KeyError ELSE None]
    ELSE [self |-> [self EXCEPT !.cache =
                        SetItem(Pop(self.cache, key), key,
                                ValueOf(self.cache, key))],
          result |-> ValueOf(self.cache, key)]

\* get that reports an expired entry absent but leaves it stored
get_expiredKept(self, key, time) ==
    IF ~Contains(self.cache, key)
    THEN [self |-> self, result |-> None]
    ELSE IF key \notin DOMAIN self.timestamps
    THEN [self |-> self, result |-> KeyError]
    ELSE IF time - self.timestamps[key] > self.ttl
    THEN [self |-> self, result |-> None]
    ELSE [self |-> [self EXCEPT !.cache =
                        SetItem(Pop(self.cache, key), key,
                                ValueOf(self.cache, key))],
          result |-> ValueOf(self.cache, key)]

\* get that returns the value without moving the key to the fresh end
get_noMove(self, key, time) ==
    IF ~Contains(self.cache, key)
    THEN [self |-> self, result |-> None]
    ELSE IF key \notin DOMAIN self.timestamps
    THEN [self |-> self, result |-> KeyError]
    ELSE IF time - self.timestamps[key] > self.ttl
    THEN [self |-> delete(self, key).self,
          result |-> IF delete(self, key).result = KeyError
                     THEN KeyError ELSE None]
    ELSE [self |-> self, result |-> ValueOf(self.cache, key)]

\* LocalCache.get
get(self, key, time) ==
    IF ~Contains(self.cache, key)
    THEN [self |-> self, result |-> None]
    ELSE IF key \notin DOMAIN self.timestamps
    THEN [self |-> self, result |-> KeyError]
    ELSE IF time - self.timestamps[key] > self.ttl
    THEN [self |-> delete(self, key).self,
          result |-> IF delete(self, key).result = KeyError
                     THEN KeyError ELSE None]
    ELSE [self |-> [self EXCEPT !.cache =
                        SetItem(Pop(self.cache, key), key,
                                ValueOf(self.cache, key))],
          result |-> ValueOf(self.cache, key)]

\* set that leaves a timestamp already recorded for the key as it is
set_keepOldTimestamp(self, key, value, time) ==
    IF Contains(self.cache, key)
    THEN [self |-> [self EXCEPT
                      !.cache = SetItem(Pop(self.cache, key), key, value),
                      !.timestamps =
                          IF key \in DOMAIN self.timestamps THEN @
                          ELSE DictSet(self.timestamps, key, time)],
          result |-> None]
    ELSE IF Len(self.cache) >= self.max_size
    THEN IF self.cache = <<>>
         THEN [self |-> self, result |-> KeyError]
         ELSE [self |-> [self EXCEPT
                      !.cache = SetItem(PopItemFirst(self.cache), key, value),
                      !.timestamps =
                          IF key \in DOMAIN self.timestamps THEN @
                          ELSE DictSet(self.timestamps, key, time)],
               result |-> None]
    ELSE [self |-> [self EXCEPT
                      !.cache = SetItem(self.cache, key, value),
                      !.timestamps =
                          IF key \in DOMAIN self.timestamps THEN @
                          ELSE DictSet(self.timestamps, key, time)],
          result |-> None]

\* the entries of self that are not expired at time
Unexpired(self, time) ==
    SelectSeq(self.cache,
              LAMBDA e : time - self.timestamps[e.key] <= self.ttl)

\* set that first removes every expired entry
set_purgeExpired(self, key, value, time) ==
    IF Contains(Unexpired(self, time), key)
    THEN [self |-> [self EXCEPT
                      !.cache = SetItem(Pop(Unexpired(self, time), key),
                                        key, value),
                      !.timestamps = DictSet(self.timestamps, key, time)],
          result |-> None]
    ELSE IF Len(Unexpired(self, time)) >= self.max_size
    THEN IF Unexpired(self, time) = <<>>
         THEN [self |-> self, result |-> KeyError]
         ELSE [self |-> [self EXCEPT
                      !.cache = SetItem(PopItemFirst(Unexpired(self, time)),
                                        key, value),
                      !.timestamps = DictSet(self.timestamps, key, time)],
               result |-> None]
    ELSE [self |-> [self EXCEPT
                      !.cache = SetItem(Unexpired(self, time), key, value),
                      !.timestamps = DictSet(self.timestamps, key, time)],
          result |-> None]

\* set with the capacity test written > instead of >=
set_gt(self, key, value, time) ==
    IF Contains(self.cache, key)
    THEN [self |-> [self EXCEPT
                      !.cache = SetItem(Pop(self.cache, key), key, value),
                      !.timestamps = DictSet(self.timestamps, key, time)],
          result |-> None]
    ELSE IF Len(self.cache) > self.max_size
    THEN IF self.cache = <<>>
         THEN [self |-> self, result |-> KeyError]
         ELSE [self |-> [self EXCEPT
                      !.cache = SetItem(PopItemFirst(self.cache), key, value),
                      !.timestamps = DictSet(self.timestamps, key, time)],
               result |-> None]
    ELSE [self |-> [self EXCEPT
                      !.cache = SetItem(self.cache, key, value),
                      !.timestamps = DictSet(self.timestamps, key, time)],
          result |-> None]

\* set that evicts with popitem(last=True): the most recently used entry
set_popLast(self, key, value, time) ==
    IF Contains(self.cache, key)
    THEN [self |-> [self EXCEPT
                      !.cache = SetItem(Pop(self.cache, key), key, value),
                      !.timestamps = DictSet(self.timestamps, key, time)],
          result |-> None]
    ELSE IF Len(self.cache) >= self.max_size
    THEN IF self.cache = <<>>
         THEN [self |-> self, result |-> KeyError]
         ELSE [self |-> [self EXCEPT
                      !.cache = SetItem(SubSeq(self.cache, 1,
                                               Len(self.cache) - 1),
                                        key, value),
                      !.timestamps = DictSet(self.timestamps, key, time)],
               result |-> None]
    ELSE [self |-> [self EXCEPT
                      !.cache = SetItem(self.cache, key, value),
                      !.timestamps = DictSet(self.timestamps, key, time)],
          result |-> None]

\* set that tests the capacity before it tests for the key: an overwrite in
\* a full cache evicts
set_sizeFirst(self, key, value, time) ==
    IF Len(self.cache) >= self.max_size
    THEN IF self.cache = <<>>
         THEN [self |-> self, result |-> KeyError]
         ELSE [self |-> [self EXCEPT
                      !.cache = SetItem(
                          IF Contains(PopItemFirst(self.cache), key)
                          THEN Pop(PopItemFirst(self.cache), key)
                          ELSE PopItemFirst(self.cache), key, value),
                      !.timestamps = DictSet(self.timestamps, key, time)],
               result |-> None]
    ELSE [self |-> [self EXCEPT
                      !.cache = SetItem(
                          IF Contains(self.cache, key)
                          THEN Pop(self.cache, key) ELSE self.cache,
                          key, value),
                      !.timestamps = DictSet(self.timestamps, key, time)],
          result |-> None]

\* LocalCache.set
set(self, key, value, time) ==
    IF Contains(self.cache, key)
    THEN [self |-> [self EXCEPT
                      !.cache = SetItem(Pop(self.cache, key), key, value),
                      !.timestamps = DictSet(self.timestamps, key, time)],
          result |-> None]
    ELSE IF Len(self.cache) >= self.max_size
    THEN IF self.cache = <<>>
         THEN [self |-> self, result |-> KeyError]
         ELSE [self |-> [self EXCEPT
                      !.cache = SetItem(PopItemFirst(self.cache), key, value),
                      !.timestamps = DictSet(self.timestamps, key, time)],
               result |-> None]
    ELSE [self |-> [self EXCEPT
                      !.cache = SetItem(self.cache, key, value),
                      !.timestamps = DictSet(self.timestamps, key, time)],
          result |-> None]

\* clear that empties the values and leaves the timestamps
clear_keepTimestamps(self) == [self EXCEPT !.cache = <<>>]

\* LocalCache.clear
clear(self) == [self EXCEPT !.cache = <<>>, !.timestamps = EmptyDict]

(***************************************************************************)
(* The cached decorator and the user operations of SupabaseClient in local *)
(* mode.  A string is the sequence of its pieces.  A User is the record of *)
(* its id, phone_number and is_active; users are values: a caller that     *)
(* changes a user passes a new object to save_user.  The cache of a        *)
(* decorated function is LocalCache(ttl=ttl) with the default max_size;    *)
(* CachedMaxSize and Ttl stand for the defaults 1000 and 60 * 60 * 24.     *)
(***************************************************************************)
\* str(self) of the client
SelfStr == "<SupabaseClient object>"

\* str(args) of a tuple of one or two elements, given their str
TupleStr(elems) ==
    IF Len(elems) = 1
    THEN <<"(", elems[1], ",)">>
    ELSE <<"(", elems[1], ", ", elems[2], ")">>

\* cached.wrapper: f"{func.__name__}:{str(args)}:{str(kwargs)}"; args holds
\* self and the argument of the method, kwargs is empty
DefaultKey(name, arg) ==
    <<name, ":">> \o TupleStr(<<SelfStr, arg>>) \o <<":", "{}">>

\* _update_cache: f"get_user:{str((user.id,))}"
UpdateCacheKey(name, arg) == <<name, ":">> \o TupleStr(<<arg>>)

\* cached.wrapper that calls the function whatever the cache holds
wrapper_alwaysCall(cache, key, value, time) ==
    [cache |-> set(get(cache, key, time).self, key, value, time).self,
     result |-> value, invoked |-> TRUE]

\* cached.wrapper without the cache.set of the result
wrapper_noStore(cache, key, value, time) ==
    IF get(cache, key, time).result # None
    THEN [cache |-> get(cache, key, time).self,
          result |-> get(cache, key, time).result, invoked |-> FALSE]
    ELSE [cache |-> get(cache, key, time).self,
          result |-> value, invoked |-> TRUE]

\* cached.wrapper that takes every stored result for a hit, None included
wrapper_servesNone(cache, key, value, time) ==
    IF Contains(get(cache, key, time).self.cache, key)
    THEN [cache |-> get(cache, key, time).self,
          result |-> get(cache, key, time).result, invoked |-> FALSE]
    ELSE [cache |-> set(get(cache, key, time).self, key, value, time).self,
          result |-> value, invoked |-> TRUE]

\* cached.wrapper, value being what the wrapped function returns if called
wrapper(cache, key, value, time) ==
    IF get(cache, key, time).result # None
    THEN [cache |-> get(cache, key, time).self,
          result |-> get(cache, key, time).result, invoked |-> FALSE]
    ELSE [cache |-> set(get(cache, key, time).self, key, value, time).self,
          result |-> value, invoked |-> TRUE]

\* cached.wrapper that stores the exception of the function as its result
wrapperRaising_stored(cache, key, time) ==
    IF get(cache, key, time).result # None
    THEN [cache |-> get(cache, key, time).self,
          result |-> get(cache, key, time).result, invoked |-> FALSE]
    ELSE [cache |-> set(get(cache, key, time).self, key, Failure, time).self,
          result |-> Failure, invoked |-> TRUE]

\* cached.wrapper around a function that raises if it is called (the
\* execute() of a remote read failing): the exception leaves the wrapper
\* before cache.set
wrapperRaising(cache, key, time) ==
    IF get(cache, key, time).result # None
    THEN [cache |-> get(cache, key, time).self,
          result |-> get(cache, key, time).result, invoked |-> FALSE]
    ELSE [cache |-> get(cache, key, time).self,
          result |-> Failure, invoked |-> TRUE]

\* the body of get_user in local mode
GetUserBody(user_id) ==
    IF user_id \in DOMAIN local_users THEN local_users[user_id] ELSE None

\* the ids of the stored users with this phone number
WithPhone(phone_number) ==
    {i \in DOMAIN local_users : local_users[i].phone_number = phone_number}

\* the body of get_user_by_phone in local mode: the first stored user with
\* the number, in the order of insertion
GetUserByPhoneBody(phone_number) ==
    IF WithPhone(phone_number) = {}
    THEN None
    ELSE local_users[CHOOSE i \in WithPhone(phone_number) :
                        \A j \in WithPhone(phone_number) : i <= j]

\* a call that is no cached read
NoRead(op) == [op |-> op, arg |-> "", invoked |-> FALSE, first |-> FALSE,
               armed |-> None, expect |-> None]

\* memo after a step from cache before to cache after: an entry lasts until
\* its key is removed
Stored(m, name, before, after) ==
    [a \in DOMAIN m |->
        IF /\ Contains(before.cache, DefaultKey(name, IF name = "get_user"
                                                      THEN ToString(a) ELSE a))
           /\ ~Contains(after.cache, DefaultKey(name, IF name = "get_user"
                                                      THEN ToString(a) ELSE a))
        THEN None ELSE m[a]]

\* the call found in memo, if it was made at most ttl ago
Armed(m, cache) ==
    IF m # None /\ now - m.at <= cache.ttl THEN m ELSE None

\* the caches of the two cached functions
Caches == [get_user |-> get_user_cache,
           get_user_by_phone |-> get_user_by_phone_cache]

\* cRead after a call that is no cached read
NoCachedRead == [manual |-> None, afterFailure |-> FALSE, at |-> 0,
                 afterClear |-> FALSE]

\* no argument, and every argument, of the two cached functions
NoArguments == [get_user |-> {}, get_user_by_phone |-> {}]

AllArguments == [get_user |-> UserIds, get_user_by_phone |-> Phones]

\* what a call that is no cached read leaves of the observations of the
\* cached reads; the primed caches are those the call leaves
NoReadSeen ==
    /\ dbPrev' = Caches
    /\ manual' = [get_user |->
                     Stored(manual.get_user, "get_user", get_user_cache,
                            get_user_cache'),
                  get_user_by_phone |->
                     Stored(manual.get_user_by_phone, "get_user_by_phone",
                            get_user_by_phone_cache,
                            get_user_by_phone_cache')]
    /\ cRead' = NoCachedRead
    /\ usersPrev' = local_users
    /\ UNCHANGED failed

\* the observations of the cached read name(a) that went through the
\* wrapper with outcome w
ReadSeen(name, a, w) ==
    /\ dbPrev' = Caches
    /\ manual' = [manual EXCEPT ![name] =
                     [Stored(@, name, Caches[name], w.cache) EXCEPT ![a] =
                        IF w.invoked THEN None ELSE manual[name][a]]]
    /\ failed' = [failed EXCEPT ![name] =
                     IF w.result = Failure THEN @ \cup {a} ELSE @ \ {a}]
    /\ cRead' = [manual |-> Armed(manual[name][a], Caches[name]),
                 afterFailure |-> a \in failed[name], at |-> now,
                 afterClear |-> a \in cleared[name]]
    /\ usersPrev' = local_users
    /\ cleared' = [cleared EXCEPT ![name] = @ \ {a}]
    /\ saved' = None

\* time passes between two calls on the client
DbTick ==
    /\ now < MaxTime
    /\ now' = now + 1
    /\ UNCHANGED <<lc, seqVars, calls, thVars, dbVars, msgVars>>

\* create_user(phone_number)
CreateUser(phone_number) ==
    /\ calls < MaxClientCalls
    /\ next_user_id <= MaxUsers
    /\ calls' = calls + 1
    /\ local_users' = DictSet(local_users, next_user_id,
                              [id |-> next_user_id,
                               phone_number |-> phone_number,
                               is_active |-> FALSE])
    /\ next_user_id' = next_user_id + 1
    /\ dbLast' = NoRead("create_user")
    /\ dbResult' = local_users'[next_user_id]
    /\ UNCHANGED <<lc, now, seqVars, msgVars, thVars, get_user_cache,
                   get_user_by_phone_cache, pending, seen, memo, cleared>>
    /\ saved' = None
    /\ NoReadSeen

\* get_user(user_id) going through the cache of get_user_by_phone, as if the
\* two functions shared one cache
GetUser_sharedCache(user_id) ==
    LET key == DefaultKey("get_user", ToString(user_id))
        w == wrapper(get_user_by_phone_cache, key, GetUserBody(user_id), now)
    IN /\ calls < MaxClientCalls
       /\ calls' = calls + 1
       /\ get_user_by_phone_cache' = w.cache
       /\ dbResult' = w.result
       /\ dbLast' = [op |-> "get_user", arg |-> ToString(user_id),
                     invoked |-> w.invoked,
                     first |-> user_id \notin seen.get_user,
                     armed |-> Armed(memo.get_user[user_id], get_user_cache),
                     expect |-> pending.id[user_id]]
       /\ pending' = [pending EXCEPT !.id[user_id] = None]
       /\ seen' = [seen EXCEPT !.get_user = @ \cup {user_id}]
       /\ dbPrev' = Caches
       /\ cRead' = NoCachedRead
       /\ usersPrev' = local_users
       /\ saved' = None
       /\ UNCHANGED cleared
       /\ UNCHANGED <<lc, now, seqVars, msgVars, thVars, local_users, next_user_id,
                      get_user_cache, memo, manual, failed>>

\* get_user(user_id), through cached.wrapper
GetUser(user_id) ==
    LET key == DefaultKey("get_user", ToString(user_id))
        w == wrapper(get_user_cache, key, GetUserBody(user_id), now)
    IN /\ calls < MaxClientCalls
       /\ calls' = calls + 1
       /\ get_user_cache' = w.cache
       /\ dbResult' = w.result
       /\ dbLast' = [op |-> "get_user", arg |-> ToString(user_id),
                     invoked |-> w.invoked,
                     first |-> user_id \notin seen.get_user,
                     armed |-> Armed(memo.get_user[user_id], get_user_cache),
                     expect |-> pending.id[user_id]]
       /\ pending' = [pending EXCEPT !.id[user_id] = None]
       /\ seen' = [seen EXCEPT !.get_user = @ \cup {user_id}]
       /\ memo' = [memo EXCEPT !.get_user =
                     [Stored(@, "get_user", get_user_cache, w.cache)
                        EXCEPT ![user_id] =
                                IF w.invoked
                                THEN [at |-> now, value |-> w.result]
                                ELSE None]]
       /\ ReadSeen("get_user", user_id, w)
       /\ UNCHANGED <<lc, now, seqVars, msgVars, thVars, local_users, next_user_id,
                      get_user_by_phone_cache>>

\* get_user_by_phone(phone_number), through cached.wrapper
GetUserByPhone(phone_number) ==
    LET key == DefaultKey("get_user_by_phone", phone_number)
        w == wrapper(get_user_by_phone_cache, key,
                     GetUserByPhoneBody(phone_number), now)
    IN /\ calls < MaxClientCalls
       /\ calls' = calls + 1
       /\ get_user_by_phone_cache' = w.cache
       /\ dbResult' = w.result
       /\ dbLast' = [op |-> "get_user_by_phone", arg |-> phone_number,
                     invoked |-> w.invoked,
                     first |-> phone_number \notin seen.get_user_by_phone,
                     armed |-> Armed(memo.get_user_by_phone[phone_number],
                                     get_user_by_phone_cache),
                     expect |-> pending.phone[phone_number]]
       /\ pending' = [pending EXCEPT !.phone[phone_number] = None]
       /\ seen' = [seen EXCEPT !.get_user_by_phone = @ \cup {phone_number}]
       /\ memo' = [memo EXCEPT !.get_user_by_phone =
                     [Stored(@, "get_user_by_phone", get_user_by_phone_cache,
                             w.cache)
                        EXCEPT ![phone_number] =
                                IF w.invoked
                                THEN [at |-> now, value |-> w.result]
                                ELSE None]]
       /\ ReadSeen("get_user_by_phone", phone_number, w)
       /\ UNCHANGED <<lc, now, seqVars, msgVars, thVars, local_users, next_user_id,
                      get_user_cache>>

\* save_user that writes the store whatever cache_only is
SaveUser_alwaysStore(user, cache_only) ==
    /\ calls < MaxClientCalls
    /\ calls' = calls + 1
    /\ local_users' = DictSet(local_users, user.id, user)
    /\ get_user_cache' =
          set(get_user_cache, UpdateCacheKey("get_user", ToString(user.id)),
              user, now).self
    /\ get_user_by_phone_cache' =
          set(get_user_by_phone_cache,
              UpdateCacheKey("get_user_by_phone", user.phone_number),
              user, now).self
    /\ dbLast' = NoRead("save_user")
    /\ dbResult' = None
    /\ pending' = [pending EXCEPT
                     !.id[user.id] = IF cache_only THEN None ELSE user,
                     !.phone[user.phone_number] =
                         IF cache_only THEN None ELSE user]
    /\ memo' = [get_user |->
                   Stored(memo.get_user, "get_user", get_user_cache,
                          get_user_cache'),
                get_user_by_phone |->
                   Stored(memo.get_user_by_phone, "get_user_by_phone",
                          get_user_by_phone_cache, get_user_by_phone_cache')]
    /\ NoReadSeen
    /\ saved' = [user |-> user, cache_only |-> cache_only]
    /\ UNCHANGED <<lc, now, seqVars, msgVars, thVars, next_user_id, seen,
                   cleared>>

\* save_user(user, cache_only), _update_cache included
SaveUser(user, cache_only) ==
    /\ calls < MaxClientCalls
    /\ calls' = calls + 1
    /\ local_users' = IF cache_only THEN local_users
                      ELSE DictSet(local_users, user.id, user)
    /\ get_user_cache' =
          set(get_user_cache, UpdateCacheKey("get_user", ToString(user.id)),
              user, now).self
    /\ get_user_by_phone_cache' =
          set(get_user_by_phone_cache,
              UpdateCacheKey("get_user_by_phone", user.phone_number),
              user, now).self
    /\ dbLast' = NoRead("save_user")
    /\ dbResult' = None
    /\ pending' = [pending EXCEPT
                     !.id[user.id] = IF cache_only THEN None ELSE user,
                     !.phone[user.phone_number] =
                         IF cache_only THEN None ELSE user]
    /\ memo' = [get_user |->
                   Stored(memo.get_user, "get_user", get_user_cache,
                          get_user_cache'),
                get_user_by_phone |->
                   Stored(memo.get_user_by_phone, "get_user_by_phone",
                          get_user_by_phone_cache, get_user_by_phone_cache')]
    /\ NoReadSeen
    /\ saved' = [user |-> user, cache_only |-> cache_only]
    /\ UNCHANGED <<lc, now, seqVars, msgVars, thVars, next_user_id, seen,
                   cleared>>

\* clear_cache that clears the cache of get_user only
ClearCache_oneCache ==
    /\ calls < MaxClientCalls
    /\ calls' = calls + 1
    /\ get_user_cache' = clear(get_user_cache)
    /\ get_user_by_phone_cache' = get_user_by_phone_cache
    /\ dbLast' = NoRead("clear_cache")
    /\ dbResult' = None
    /\ memo' = [get_user |-> [i \in UserIds |-> None],
                get_user_by_phone |-> [p \in Phones |-> None]]
    /\ NoReadSeen
    /\ cleared' = AllArguments
    /\ saved' = None
    /\ UNCHANGED <<lc, now, seqVars, msgVars, thVars, local_users, next_user_id,
                   pending, seen>>

\* clear_cache()
ClearCache ==
    /\ calls < MaxClientCalls
    /\ calls' = calls + 1
    /\ get_user_cache' = clear(get_user_cache)
    /\ get_user_by_phone_cache' = clear(get_user_by_phone_cache)
    /\ dbLast' = NoRead("clear_cache")
    /\ dbResult' = None
    /\ memo' = [get_user |-> [i \in UserIds |-> None],
                get_user_by_phone |-> [p \in Phones |-> None]]
    /\ NoReadSeen
    /\ cleared' = AllArguments
    /\ saved' = None
    /\ UNCHANGED <<lc, now, seqVars, msgVars, thVars, local_users, next_user_id,
                   pending, seen>>

\* the users a caller passes to save_user: a stored user, changed or not
Savable ==
    {[local_users[i] EXCEPT !.is_active = b] :
        i \in DOMAIN local_users, b \in BOOLEAN}

NextClient ==
    \/ DbTick
    \/ \E phone_number \in Phones : CreateUser(phone_number)
    \/ \E user_id \in UserIds : GetUser(user_id)
    \/ \E phone_number \in Phones : GetUserByPhone(phone_number)
    \/ \E user \in Savable, cache_only \in BOOLEAN :
          SaveUser(user, cache_only)
    \/ ClearCache

\* get_user(user_id) while the read of the store fails
GetUserRaises(user_id) ==
    LET key == DefaultKey("get_user", ToString(user_id))
        w == wrapperRaising(get_user_cache, key, now)
    IN /\ calls < MaxClientCalls
       /\ calls' = calls + 1
       /\ get_user_cache' = w.cache
       /\ dbResult' = w.result
       /\ dbLast' = [op |-> "get_user", arg |-> ToString(user_id),
                     invoked |-> w.invoked,
                     first |-> user_id \notin seen.get_user,
                     armed |-> Armed(memo.get_user[user_id], get_user_cache),
                     expect |-> pending.id[user_id]]
       /\ pending' = IF w.invoked THEN pending
                     ELSE [pending EXCEPT !.id[user_id] = None]
       /\ seen' = [seen EXCEPT !.get_user = @ \cup {user_id}]
       /\ memo' = [memo EXCEPT !.get_user =
                     [Stored(@, "get_user", get_user_cache, w.cache)
                        EXCEPT ![user_id] = None]]
       /\ ReadSeen("get_user", user_id, w)
       /\ UNCHANGED <<lc, now, seqVars, msgVars, thVars, local_users, next_user_id,
                      get_user_by_phone_cache>>

\* get_user_by_phone(phone_number) while the read of the store fails
GetUserByPhoneRaises(phone_number) ==
    LET key == DefaultKey("get_user_by_phone", phone_number)
        w == wrapperRaising(get_user_by_phone_cache, key, now)
    IN /\ calls < MaxClientCalls
       /\ calls' = calls + 1
       /\ get_user_by_phone_cache' = w.cache
       /\ dbResult' = w.result
       /\ dbLast' = [op |-> "get_user_by_phone", arg |-> phone_number,
                     invoked |-> w.invoked,
                     first |-> phone_number \notin seen.get_user_by_phone,
                     armed |-> Armed(memo.get_user_by_phone[phone_number],
                                     get_user_by_phone_cache),
                     expect |-> pending.phone[phone_number]]
       /\ pending' = IF w.invoked THEN pending
                     ELSE [pending EXCEPT !.phone[phone_number] = None]
       /\ seen' = [seen EXCEPT !.get_user_by_phone = @ \cup {phone_number}]
       /\ memo' = [memo EXCEPT !.get_user_by_phone =
                     [Stored(@, "get_user_by_phone", get_user_by_phone_cache,
                             w.cache)
                        EXCEPT ![phone_number] = None]]
       /\ ReadSeen("get_user_by_phone", phone_number, w)
       /\ UNCHANGED <<lc, now, seqVars, msgVars, thVars, local_users, next_user_id,
                      get_user_cache>>

\* outside code calls get_user.cache.set(key, value), key being the key of
\* the wrapper for get_user(user_id)
GetUserCacheSet(user_id, value) ==
    /\ calls < MaxClientCalls
    /\ calls' = calls + 1
    /\ get_user_cache' =
          set(get_user_cache, DefaultKey("get_user", ToString(user_id)),
              value, now).self
    /\ dbLast' = NoRead("get_user.cache.set")
    /\ dbResult' = None
    /\ dbPrev' = Caches
    /\ manual' = [manual EXCEPT !.get_user =
                     [Stored(@, "get_user", get_user_cache, get_user_cache')
                        EXCEPT ![user_id] = [at |-> now, value |-> value]]]
    /\ memo' = [memo EXCEPT !.get_user =
                   [Stored(@, "get_user", get_user_cache, get_user_cache')
                      EXCEPT ![user_id] = None]]
    /\ pending' = [pending EXCEPT !.id[user_id] = None]
    /\ cRead' = NoCachedRead
    /\ usersPrev' = local_users
    /\ saved' = None
    /\ UNCHANGED <<lc, now, seqVars, msgVars, thVars, local_users, next_user_id,
                   get_user_by_phone_cache, seen, failed, cleared>>

\* outside code calls get_user_by_phone.cache.set(key, value), key being
\* the key of the wrapper for get_user_by_phone(phone_number)
GetUserByPhoneCacheSet(phone_number, value) ==
    /\ calls < MaxClientCalls
    /\ calls' = calls + 1
    /\ get_user_by_phone_cache' =
          set(get_user_by_phone_cache,
              DefaultKey("get_user_by_phone", phone_number), value, now).self
    /\ dbLast' = NoRead("get_user_by_phone.cache.set")
    /\ dbResult' = None
    /\ dbPrev' = Caches
    /\ manual' = [manual EXCEPT !.get_user_by_phone =
                     [Stored(@, "get_user_by_phone", get_user_by_phone_cache,
                             get_user_by_phone_cache')
                        EXCEPT ![phone_number] =
                                [at |-> now, value |-> value]]]
    /\ memo' = [memo EXCEPT !.get_user_by_phone =
                   [Stored(@, "get_user_by_phone", get_user_by_phone_cache,
                           get_user_by_phone_cache')
                      EXCEPT ![phone_number] = None]]
    /\ pending' = [pending EXCEPT !.phone[phone_number] = None]
    /\ cRead' = NoCachedRead
    /\ usersPrev' = local_users
    /\ saved' = None
    /\ UNCHANGED <<lc, now, seqVars, msgVars, thVars, local_users, next_user_id,
                   get_user_cache, seen, failed, cleared>>

\* the client with reads that fail and with outside code writing the caches
NextCached ==
    \/ DbTick
    \/ \E phone_number \in Phones : CreateUser(phone_number)
    \/ \E user_id \in UserIds : GetUser(user_id)
    \/ \E phone_number \in Phones : GetUserByPhone(phone_number)
    \/ \E user \in Savable, cache_only \in BOOLEAN :
          SaveUser(user, cache_only)
    \/ ClearCache
    \/ \E user_id \in UserIds : GetUserRaises(user_id)
    \/ \E phone_number \in Phones : GetUserByPhoneRaises(phone_number)
    \/ \E user_id \in UserIds, value \in Savable \cup {None} :
          GetUserCacheSet(user_id, value)
    \/ \E phone_number \in Phones, value \in Savable \cup {None} :
          GetUserByPhoneCacheSet(phone_number, value)

(***************************************************************************)
(* The message operations of SupabaseClient and process_message of         *)
(* BaseCharacter.  local_messages is the message store; a flag of an       *)
(* operation tells that its call of the store raises (the execute() of a   *)
(* remote store failing), and completion is what get_completion returns,   *)
(* Failure when it raises.  A Message is the record of its id, user_id,    *)
(* role, content and message_index.                                        *)
(***************************************************************************)
\* msgLast when no message operation was called
NoMessageCall == [op |-> "init", user_id |-> 0, character |-> "",
                  failed |-> FALSE, completionFailed |-> FALSE, n |-> 0]

\* self.local_messages.get(user_id, [])
MessagesOf(user_id) ==
    IF user_id \in DOMAIN local_messages THEN local_messages[user_id]
    ELSE <<>>

\* get_message_count that counts no message
get_message_count_zero(user_id, fails) == 0

\* get_message_count: the failure of the store is caught and gives 0
get_message_count(user_id, fails) ==
    IF fails THEN 0 ELSE Len(MessagesOf(user_id))

\* sorted(ms, key=lambda x: x.message_index, reverse=True): a stable sort,
\* messages of equal index keep their order
RECURSIVE SortedByIndexDesc(_)
SortedByIndexDesc(ms) ==
    IF ms = <<>> THEN <<>>
    ELSE LET rest == SortedByIndexDesc(Tail(ms))
             k == Cardinality({i \in 1..Len(rest) :
                     rest[i].message_index > Head(ms).message_index})
         IN SubSeq(rest, 1, k) \o <<Head(ms)>>
               \o SubSeq(rest, k + 1, Len(rest))

\* seq[:limit]
Take(seq, limit) ==
    SubSeq(seq, 1, IF limit < Len(seq) THEN limit ELSE Len(seq))

\* seq after seq.reverse()
Reversed(seq) == [i \in 1..Len(seq) |-> seq[Len(seq) + 1 - i]]

\* get_recent_messages without the messages.reverse()
get_recent_messages_newestFirst(user_id, limit, fails) ==
    IF fails THEN <<>>
    ELSE Take(SortedByIndexDesc(MessagesOf(user_id)), limit)

\* get_recent_messages: the failure of the store is caught and gives []
get_recent_messages(user_id, limit, fails) ==
    IF fails THEN <<>>
    ELSE Reversed(Take(SortedByIndexDesc(MessagesOf(user_id)), limit))

\* Message.to_openai_format (no function_call, no function_name)
to_openai_format(msg) == [role |-> msg.role, content |-> msg.content]

\* get_messages_for_openai
get_messages_for_openai(user_id, limit, fails) ==
    [i \in 1..Len(get_recent_messages(user_id, limit, fails)) |->
        to_openai_format(get_recent_messages(user_id, limit, fails)[i])]

\* CHARACTER_PROMPTS[name]
Prompt(name) == <<"prompt of ", name>>

\* the text process_message returns when get_completion raises (written
\* here without its accents)
Fallback(name) ==
    <<"Desculpe, ", name,
      " esta temporariamente indisponivel. Tente novamente em alguns momentos.">>

\* the list process_message passes to get_completion
CompletionInput(name, user_id, message, fails) ==
    <<[role |-> "system", content |-> Prompt(name)]>>
       \o get_messages_for_openai(user_id, 10, fails)
       \o <<[role |-> "user", content |-> message]>>

\* process_message that lets the exception of get_completion through
process_message_raises(name, user_id, message, completion, fails) ==
    IF completion = Failure THEN Failure ELSE Returned(completion)

\* BaseCharacter.process_message of the character name: what it returns
process_message(name, user_id, message, completion, fails) ==
    IF completion = Failure THEN Returned(Fallback(name))
    ELSE Returned(completion)

\* what every message operation records
MessageCall(op, user_id, character, failed_, completionFailed) ==
    /\ calls < MaxMessageCalls
    /\ calls' = calls + 1
    /\ msgLast' = [op |-> op, user_id |-> user_id, character |-> character,
                   failed |-> failed_,
                   completionFailed |-> completionFailed, n |-> calls + 1]
    /\ msgPrev' = [messages |-> local_messages, users |-> local_users]
    /\ UNCHANGED <<lc, now, seqVars, thVars, dbVars>>

\* append_message(user_id, role, content); countFails: the count of the
\* store raises (caught in get_message_count), insertFails: the insert
\* raises (raised again by append_message)
AppendMessage(user_id, role, content, countFails, insertFails) ==
    LET message == [id |-> next_message_id, user_id |-> user_id,
                    role |-> role, content |-> content,
                    message_index |->
                        get_message_count(user_id, countFails) + 1]
    IN /\ next_message_id <= MaxMessages
       /\ MessageCall("append_message", user_id, "",
                      countFails \/ insertFails, FALSE)
       /\ IF insertFails
          THEN /\ msgResult' = Failure
               /\ UNCHANGED <<local_messages, next_message_id>>
          ELSE /\ msgResult' = Returned(message)
               /\ next_message_id' = next_message_id + 1
               /\ local_messages' =
                     DictSet(local_messages, user_id,
                             Append(MessagesOf(user_id), message))
       /\ UNCHANGED msgSent

\* get_recent_messages(user_id, limit)
GetRecentMessages(user_id, limit, fails) ==
    /\ MessageCall("get_recent_messages", user_id, "", fails, FALSE)
    /\ msgResult' = Returned(get_recent_messages(user_id, limit, fails))
    /\ UNCHANGED <<local_messages, next_message_id, msgSent>>

\* get_message_count(user_id)
GetMessageCount(user_id, fails) ==
    /\ MessageCall("get_message_count", user_id, "", fails, FALSE)
    /\ msgResult' = Returned(get_message_count(user_id, fails))
    /\ UNCHANGED <<local_messages, next_message_id, msgSent>>

\* clear_user_messages(user_id): the failure of the store is caught and
\* gives False
ClearUserMessages(user_id, fails) ==
    /\ MessageCall("clear_user_messages", user_id, "", fails, FALSE)
    /\ msgResult' = Returned(~fails)
    /\ local_messages' = IF fails \/ user_id \notin DOMAIN local_messages
                         THEN local_messages
                         ELSE DictPop(local_messages, user_id)
    /\ UNCHANGED <<next_message_id, msgSent>>

\* process_message(user, message) of the character name, user.id being
\* user_id
ProcessMessage(name, user_id, message, completion, fails) ==
    /\ MessageCall("process_message", user_id, name, fails,
                   completion = Failure)
    /\ msgSent' = CompletionInput(name, user_id, message, fails)
    /\ msgResult' = process_message(name, user_id, message, completion,
                                    fails)
    /\ UNCHANGED <<local_messages, next_message_id>>

\* a user is created between two message operations
MessagesCreateUser(phone_number) ==
    /\ next_user_id <= MaxUsers
    /\ local_users' = DictSet(local_users, next_user_id,
                              [id |-> next_user_id,
                               phone_number |-> phone_number,
                               is_active |-> FALSE])
    /\ next_user_id' = next_user_id + 1
    /\ msgLast' = [NoMessageCall EXCEPT !.op = "create_user", !.n = calls]
    /\ msgResult' = Returned(local_users'[next_user_id])
    /\ msgPrev' = [messages |-> local_messages, users |-> local_users]
    /\ UNCHANGED <<lc, now, seqVars, thVars, calls, get_user_cache,
                   get_user_by_phone_cache, dbLast, dbResult, pending, seen,
                   memo, dbPrev, manual, failed, cRead, local_messages,
                   next_message_id, msgSent, usersPrev, cleared, saved>>

NextMessages ==
    \/ \E phone_number \in Phones : MessagesCreateUser(phone_number)
    \/ \E user_id \in UserIds, role \in Roles, content \in Contents,
          countFails \in BOOLEAN, insertFails \in BOOLEAN :
          AppendMessage(user_id, role, content, countFails, insertFails)
    \/ \E user_id \in UserIds, limit \in Limits, fails \in BOOLEAN :
          GetRecentMessages(user_id, limit, fails)
    \/ \E user_id \in UserIds, fails \in BOOLEAN :
          GetMessageCount(user_id, fails)
    \/ \E user_id \in UserIds, fails \in BOOLEAN :
          ClearUserMessages(user_id, fails)
    \/ \E name \in Characters, user_id \in UserIds, message \in Contents,
          completion \in Replies \cup {Failure}, fails \in BOOLEAN :
          ProcessMessage(name, user_id, message, completion, fails)

(***************************************************************************)
(* The client, the message handler and the message sender as the local     *)
(* harness builds them: MessageHandler(local_mode) makes one SupabaseClient *)
(* and one MetaIO around it, both in the mode of the handler.  An argument *)
(* list is the sequence of the arguments of a call.                        *)
(***************************************************************************)

TypeError == [raised |-> "TypeError"]

ValueError == [raised |-> "ValueError"]

\* a name that is no key of CHARACTER_PROMPTS
UnknownCharacter == "Nobody"

CharacterNames == Characters \cup {UnknownCharacter}

\* the text handle_message returns for a character that is None
NotFound == <<"Character not found">>

LocalLimits == 0..MaxLimit

\* BaseCharacter(*args): __init__ requires name, prompt, meta_io, db_client
BaseCharacter(args) ==
    IF Len(args) # 4 THEN TypeError
    ELSE [name |-> args[1], prompt |-> args[2]]

\* get_character(*args): it takes character_name alone, raises ValueError
\* for a name that is no key of CHARACTER_PROMPTS, and builds the
\* character from the name and the prompt
get_character(args) ==
    IF Len(args) # 1 THEN TypeError
    ELSE IF args[1] \notin Characters THEN ValueError
    ELSE BaseCharacter(<<args[1], Prompt(args[1])>>)

\* MessageHandler.handle_message in local mode: what it returns or raises,
\* and the list it has passed to get_completion
handle_message(user_id, message, character_name, completion) ==
    LET character == get_character(<<character_name, "meta_io", "db_client">>)
    IN IF character \in {TypeError, ValueError}
       THEN [result |-> character, sent |-> <<>>]
       ELSE IF character = None
       THEN [result |-> Returned(NotFound), sent |-> <<>>]
       ELSE [result |-> process_message(character.name, user_id, message,
                                        completion, FALSE),
             sent |-> CompletionInput(character.name, user_id, message,
                                      FALSE)]

\* handle_message(user, message, character_name), user.id being user_id
HandleMessage(user_id, message, character_name, completion) ==
    /\ calls < MaxMessageCalls
    /\ calls' = calls + 1
    /\ msgLast' = [op |-> "handle_message", user_id |-> user_id,
                   character |-> character_name, failed |-> FALSE,
                   completionFailed |-> completion = Failure,
                   n |-> calls + 1, message |-> message]
    /\ msgPrev' = [messages |-> local_messages, users |-> local_users]
    /\ msgResult' = handle_message(user_id, message, character_name,
                                   completion).result
    /\ msgSent' = handle_message(user_id, message, character_name,
                                 completion).sent
    /\ UNCHANGED <<lc, now, seqVars, thVars, dbVars, local_messages,
                   next_message_id>>

\* get_recent_messages(user_id, limit) in local mode
GetRecentMessagesLocal(user_id, limit) ==
    /\ calls < MaxMessageCalls
    /\ calls' = calls + 1
    /\ msgLast' = [op |-> "get_recent_messages", user_id |-> user_id,
                   character |-> "", failed |-> FALSE,
                   completionFailed |-> FALSE, n |-> calls + 1,
                   limit |-> limit]
    /\ msgPrev' = [messages |-> local_messages, users |-> local_users]
    /\ msgResult' = Returned(get_recent_messages(user_id, limit, FALSE))
    /\ UNCHANGED <<lc, now, seqVars, thVars, dbVars, local_messages,
                   next_message_id, msgSent>>

\* reset_local_data() that does not call clear_cache
ResetLocalData_keepCache ==
    /\ calls < MaxClientCalls
    /\ calls' = calls + 1
    /\ local_users' = EmptyDict
    /\ local_messages' = EmptyDict
    /\ next_user_id' = 1
    /\ next_message_id' = 1
    /\ UNCHANGED <<get_user_cache, get_user_by_phone_cache>>
    /\ dbLast' = NoRead("reset_local_data")
    /\ dbResult' = None
    /\ pending' = [id |-> [i \in UserIds |-> None],
                   phone |-> [p \in Phones |-> None]]
    /\ memo' = [get_user |-> [i \in UserIds |-> None],
                get_user_by_phone |-> [p \in Phones |-> None]]
    /\ NoReadSeen
    /\ cleared' = AllArguments
    /\ saved' = None
    /\ msgLast' = [NoMessageCall EXCEPT !.op = "reset_local_data",
                                        !.n = calls + 1]
    /\ msgPrev' = [messages |-> local_messages, users |-> local_users]
    /\ msgResult' = Returned(None)
    /\ UNCHANGED <<lc, now, seqVars, thVars, seen, msgSent>>

\* reset_local_data() in local mode, clear_cache included
ResetLocalData ==
    /\ calls < MaxClientCalls
    /\ calls' = calls + 1
    /\ local_users' = EmptyDict
    /\ local_messages' = EmptyDict
    /\ next_user_id' = 1
    /\ next_message_id' = 1
    /\ get_user_cache' = clear(get_user_cache)
    /\ get_user_by_phone_cache' = clear(get_user_by_phone_cache)
    /\ dbLast' = NoRead("reset_local_data")
    /\ dbResult' = None
    /\ pending' = [id |-> [i \in UserIds |-> None],
                   phone |-> [p \in Phones |-> None]]
    /\ memo' = [get_user |-> [i \in UserIds |-> None],
                get_user_by_phone |-> [p \in Phones |-> None]]
    /\ NoReadSeen
    /\ cleared' = AllArguments
    /\ saved' = None
    /\ msgLast' = [NoMessageCall EXCEPT !.op = "reset_local_data",
                                        !.n = calls + 1]
    /\ msgPrev' = [messages |-> local_messages, users |-> local_users]
    /\ msgResult' = Returned(None)
    /\ UNCHANGED <<lc, now, seqVars, thVars, seen, msgSent>>

\* the calls of the local harness on its handler and the client of it
NextLocal ==
    \/ DbTick
    \/ \E phone_number \in Phones : CreateUser(phone_number)
    \/ \E user_id \in UserIds : GetUser(user_id)
    \/ \E phone_number \in Phones : GetUserByPhone(phone_number)
    \/ \E user \in Savable, cache_only \in BOOLEAN :
          SaveUser(user, cache_only)
    \/ ClearCache
    \/ ResetLocalData
    \/ \E user_id \in UserIds, role \in Roles, content \in Contents :
          AppendMessage(user_id, role, content, FALSE, FALSE)
    \/ \E user_id \in UserIds, limit \in LocalLimits :
          GetRecentMessagesLocal(user_id, limit)
    \/ \E user_id \in UserIds : ClearUserMessages(user_id, FALSE)
    \/ \E user_id \in UserIds, message \in Contents,
          character_name \in CharacterNames,
          completion \in Replies \cup {Failure} :
          HandleMessage(user_id, message, character_name, completion)

\* MetaIO.send_message(user, message), user.id being user_id: postFails
\* tells that requests.post or raise_for_status raises, countFails and
\* insertFails that the count and the insert of append_message do; a
\* handler in local mode has a local store and sends nothing
SendMessage(user_id, message, local_mode, postFails, countFails, insertFails) ==
    LET delivered == local_mode \/ ~postFails
        appended == [id |-> next_message_id, user_id |-> user_id,
                     role |-> "assistant", content |-> message,
                     message_index |->
                         get_message_count(user_id, countFails) + 1]
    IN /\ calls < MaxMessageCalls
       /\ next_message_id <= MaxMessages
       /\ local_mode => ~(postFails \/ countFails \/ insertFails)
       /\ calls' = calls + 1
       /\ msgLast' = [op |-> "send_message", user_id |-> user_id,
                      character |-> "",
                      failed |-> postFails \/ countFails \/ insertFails,
                      completionFailed |-> FALSE, n |-> calls + 1,
                      delivered |-> delivered, local_mode |-> local_mode]
       /\ msgPrev' = [messages |-> local_messages, users |-> local_users]
       /\ IF delivered /\ ~insertFails
          THEN /\ local_messages' =
                     DictSet(local_messages, user_id,
                             Append(MessagesOf(user_id), appended))
               /\ next_message_id' = next_message_id + 1
          ELSE UNCHANGED <<local_messages, next_message_id>>
       /\ msgResult' = Returned(delivered /\ ~insertFails)
       /\ UNCHANGED <<lc, now, seqVars, thVars, dbVars, msgSent>>

\* the message operations and send_message of a handler in either mode
NextSend ==
    \/ \E phone_number \in Phones : MessagesCreateUser(phone_number)
    \/ \E user_id \in UserIds, role \in Roles, content \in Contents,
          countFails \in BOOLEAN, insertFails \in BOOLEAN :
          AppendMessage(user_id, role, content, countFails, insertFails)
    \/ \E user_id \in UserIds, limit \in Limits, fails \in BOOLEAN :
          GetRecentMessages(user_id, limit, fails)
    \/ \E user_id \in UserIds, fails \in BOOLEAN :
          GetMessageCount(user_id, fails)
    \/ \E user_id \in UserIds, fails \in BOOLEAN :
          ClearUserMessages(user_id, fails)
    \/ \E name \in Characters, user_id \in UserIds, message \in Contents,
          completion \in Replies \cup {Failure}, fails \in BOOLEAN :
          ProcessMessage(name, user_id, message, completion, fails)
    \/ \E user_id \in UserIds, message \in Contents, local_mode \in BOOLEAN,
          postFails \in BOOLEAN, countFails \in BOOLEAN,
          insertFails \in BOOLEAN :
          SendMessage(user_id, message, local_mode, postFails, countFails,
                      insertFails)

(***************************************************************************)
(* One LocalCache driven by a single thread.                               *)
(***************************************************************************)
\* a thread that is in no call
Idle == [pc |-> "idle", key |-> 0, value |-> None, tmp |-> None]

Init ==
    /\ \E n \in 0..MaxCapacity : lc = LocalCache(n, Ttl)
    /\ now = 0
    /\ last = [op |-> "init", key |-> 0, value |-> None, had |-> FALSE]
    /\ prev = <<>>
    /\ lcPrev = lc
    /\ result = None
    /\ touch = [k \in Keys |-> 0]
    /\ setAt = [k \in Keys |-> -1]
    /\ calls = 0
    /\ onlySets = TRUE
    /\ th = [t \in Threads |-> Idle]
    /\ raised = FALSE
    /\ local_users = EmptyDict
    /\ next_user_id = 1
    /\ get_user_cache = LocalCache(CachedMaxSize, Ttl)
    /\ get_user_by_phone_cache = LocalCache(CachedMaxSize, Ttl)
    /\ dbLast = NoRead("init")
    /\ dbResult = None
    /\ pending = [id |-> [i \in UserIds |-> None],
                  phone |-> [p \in Phones |-> None]]
    /\ seen = [get_user |-> {}, get_user_by_phone |-> {}]
    /\ memo = [get_user |-> [i \in UserIds |-> None],
               get_user_by_phone |-> [p \in Phones |-> None]]
    /\ dbPrev = [get_user |-> get_user_cache,
                 get_user_by_phone |-> get_user_by_phone_cache]
    /\ manual = [get_user |-> [i \in UserIds |-> None],
                 get_user_by_phone |-> [p \in Phones |-> None]]
    /\ failed = [get_user |-> {}, get_user_by_phone |-> {}]
    /\ cRead = NoCachedRead
    /\ usersPrev = local_users
    /\ cleared = NoArguments
    /\ saved = None
    /\ local_messages = EmptyDict
    /\ next_message_id = 1
    /\ msgLast = NoMessageCall
    /\ msgResult = Returned(None)
    /\ msgSent = <<>>
    /\ msgPrev = [messages |-> local_messages, users |-> local_users]

\* the clock advances between calls
Tick ==
    /\ now < MaxTime
    /\ now' = now + 1
    /\ last' = [op |-> "tick", key |-> 0, value |-> None, had |-> FALSE]
    /\ prev' = <<>>
    /\ lcPrev' = lc
    /\ result' = None
    /\ UNCHANGED <<lc, touch, setAt, calls, onlySets, thVars, dbVars, msgVars>>

\* a call lc.get(key)
Get(key) ==
    /\ calls < MaxCalls
    /\ lc' = get(lc, key, now).self
    /\ result' = get(lc, key, now).result
    /\ last' = [op |-> "get", key |-> key, value |-> None,
                had |-> Contains(lc.cache, key)]
    /\ prev' = lc.cache
    /\ lcPrev' = lc
    /\ calls' = calls + 1
    /\ touch' = IF get(lc, key, now).result \in {None, KeyError}
                THEN touch ELSE [touch EXCEPT ![key] = calls + 1]
    /\ onlySets' = FALSE
    /\ UNCHANGED <<now, setAt, thVars, dbVars, msgVars>>

\* a call lc.set(key, value)
Set(key, value) ==
    /\ calls < MaxCalls
    /\ lc' = set(lc, key, value, now).self
    /\ result' = set(lc, key, value, now).result
    /\ last' = [op |-> "set", key |-> key, value |-> value,
                had |-> Contains(lc.cache, key)]
    /\ prev' = lc.cache
    /\ lcPrev' = lc
    /\ calls' = calls + 1
    /\ touch' = IF set(lc, key, value, now).result = KeyError
                THEN touch ELSE [touch EXCEPT ![key] = calls + 1]
    /\ setAt' = IF set(lc, key, value, now).result = KeyError
                THEN setAt ELSE [setAt EXCEPT ![key] = now]
    /\ onlySets' = (onlySets /\ touch[key] = 0)
    /\ UNCHANGED <<now, thVars, dbVars, msgVars>>

\* a call lc.delete(key)
Delete(key) ==
    /\ calls < MaxCalls
    /\ lc' = delete(lc, key).self
    /\ result' = delete(lc, key).result
    /\ last' = [op |-> "delete", key |-> key, value |-> None,
                had |-> Contains(lc.cache, key)]
    /\ prev' = lc.cache
    /\ lcPrev' = lc
    /\ calls' = calls + 1
    /\ onlySets' = FALSE
    /\ UNCHANGED <<now, touch, setAt, thVars, dbVars, msgVars>>

\* a call lc.clear()
Clear ==
    /\ calls < MaxCalls
    /\ lc' = clear(lc)
    /\ result' = None
    /\ last' = [op |-> "clear", key |-> 0, value |-> None, had |-> FALSE]
    /\ prev' = lc.cache
    /\ lcPrev' = lc
    /\ calls' = calls + 1
    /\ onlySets' = FALSE
    /\ UNCHANGED <<now, touch, setAt, thVars, dbVars, msgVars>>

Next ==
    \/ Tick
    \/ \E key \in Keys : Get(key)
    \/ \E key \in Keys, value \in Values : Set(key, value)
    \/ \E key \in Keys : Delete(key)
    \/ Clear

Spec == Init /\ [][Next]_vars

\* the client alone: the LocalCache of the other specifications is idle
InitClient == Init /\ lc = LocalCache(MaxCapacity, Ttl)

SpecClient == InitClient /\ [][NextClient]_vars

SpecCached == InitClient /\ [][NextCached]_vars

SpecMessages == InitClient /\ [][NextMessages]_vars

SpecLocal == InitClient /\ [][NextLocal]_vars

SpecSend == InitClient /\ [][NextSend]_vars

(***************************************************************************)
(* One LocalCache shared by threads.  The class takes no lock, so the      *)
(* dictionary operations of one call interleave with those of another;     *)
(* each of them is one step.  A step is named after the method and the     *)
(* operation it performs.                                                  *)
(***************************************************************************)
\* thread t goes on to pc
Goto(t, pc) == th' = [th EXCEPT ![t].pc = pc]

\* the call of thread t returns
Return(t) == th' = [th EXCEPT ![t] = Idle]

\* the call of thread t raises
Raise(t) == th' = [th EXCEPT ![t] = Idle] /\ raised' = TRUE

\* thread t calls get(key), set(key, value) or delete(key)
Call(t, op, key, value) ==
    /\ th[t].pc = "idle"
    /\ calls < MaxThreadCalls
    /\ calls' = calls + 1
    /\ th' = [th EXCEPT ![t] = [pc |-> op, key |-> key, value |-> value,
                                tmp |-> None]]
    /\ UNCHANGED <<lc, now, seqVars, raised, dbVars, msgVars>>

\* get: if key not in self._cache: return None
GetContains(t) ==
    /\ th[t].pc = "get"
    /\ IF Contains(lc.cache, th[t].key)
       THEN Goto(t, "get_timestamp") ELSE Return(t)
    /\ UNCHANGED <<lc, now, seqVars, calls, raised, dbVars, msgVars>>

\* get: if time.time() - self._timestamps[key] > self._ttl
GetTimestamp(t) ==
    /\ th[t].pc = "get_timestamp"
    /\ IF th[t].key \notin DOMAIN lc.timestamps
       THEN Raise(t)
       ELSE /\ IF now - lc.timestamps[th[t].key] > lc.ttl
               THEN Goto(t, "get_delete") ELSE Goto(t, "get_pop")
            /\ UNCHANGED raised
    /\ UNCHANGED <<lc, now, seqVars, calls, dbVars, msgVars>>

\* get: value = self._cache.pop(key)
GetPop(t) ==
    /\ th[t].pc = "get_pop"
    /\ IF Contains(lc.cache, th[t].key)
       THEN /\ lc' = [lc EXCEPT !.cache = Pop(lc.cache, th[t].key)]
            /\ th' = [th EXCEPT ![t].pc = "get_insert",
                                 ![t].tmp = ValueOf(lc.cache, th[t].key)]
            /\ UNCHANGED raised
       ELSE Raise(t) /\ UNCHANGED lc
    /\ UNCHANGED <<now, seqVars, calls, dbVars, msgVars>>

\* get: self._cache[key] = value; return value
GetInsert(t) ==
    /\ th[t].pc = "get_insert"
    /\ lc' = [lc EXCEPT !.cache = SetItem(lc.cache, th[t].key, th[t].tmp)]
    /\ Return(t)
    /\ UNCHANGED <<now, seqVars, calls, raised, dbVars, msgVars>>

\* delete: if key in self._cache (called by the thread, or by its get)
DeleteContains(t) ==
    /\ th[t].pc \in {"delete", "get_delete"}
    /\ IF Contains(lc.cache, th[t].key)
       THEN Goto(t, "delete_pop") ELSE Return(t)
    /\ UNCHANGED <<lc, now, seqVars, calls, raised, dbVars, msgVars>>

\* delete: self._cache.pop(key)
DeletePop(t) ==
    /\ th[t].pc = "delete_pop"
    /\ IF Contains(lc.cache, th[t].key)
       THEN /\ lc' = [lc EXCEPT !.cache = Pop(lc.cache, th[t].key)]
            /\ Goto(t, "delete_timestamp")
            /\ UNCHANGED raised
       ELSE Raise(t) /\ UNCHANGED lc
    /\ UNCHANGED <<now, seqVars, calls, dbVars, msgVars>>

\* delete: self._timestamps.pop(key)
DeleteTimestamp(t) ==
    /\ th[t].pc = "delete_timestamp"
    /\ IF th[t].key \in DOMAIN lc.timestamps
       THEN /\ lc' = [lc EXCEPT
                        !.timestamps = DictPop(lc.timestamps, th[t].key)]
            /\ Return(t)
            /\ UNCHANGED raised
       ELSE Raise(t) /\ UNCHANGED lc
    /\ UNCHANGED <<now, seqVars, calls, dbVars, msgVars>>

\* set: if key in self._cache
SetContains(t) ==
    /\ th[t].pc = "set"
    /\ IF Contains(lc.cache, th[t].key)
       THEN Goto(t, "set_pop") ELSE Goto(t, "set_len")
    /\ UNCHANGED <<lc, now, seqVars, calls, raised, dbVars, msgVars>>

\* set: self._cache.pop(key)
SetPop(t) ==
    /\ th[t].pc = "set_pop"
    /\ IF Contains(lc.cache, th[t].key)
       THEN /\ lc' = [lc EXCEPT !.cache = Pop(lc.cache, th[t].key)]
            /\ Goto(t, "set_insert")
            /\ UNCHANGED raised
       ELSE Raise(t) /\ UNCHANGED lc
    /\ UNCHANGED <<now, seqVars, calls, dbVars, msgVars>>

\* set: elif len(self._cache) >= self._max_size
SetLen(t) ==
    /\ th[t].pc = "set_len"
    /\ IF Len(lc.cache) >= lc.max_size
       THEN Goto(t, "set_popitem") ELSE Goto(t, "set_insert")
    /\ UNCHANGED <<lc, now, seqVars, calls, raised, dbVars, msgVars>>

\* set: self._cache.popitem(last=False)
SetPopItem(t) ==
    /\ th[t].pc = "set_popitem"
    /\ IF lc.cache # <<>>
       THEN /\ lc' = [lc EXCEPT !.cache = PopItemFirst(lc.cache)]
            /\ Goto(t, "set_insert")
            /\ UNCHANGED raised
       ELSE Raise(t) /\ UNCHANGED lc
    /\ UNCHANGED <<now, seqVars, calls, dbVars, msgVars>>

\* set: self._cache[key] = value
SetInsert(t) ==
    /\ th[t].pc = "set_insert"
    /\ lc' = [lc EXCEPT !.cache = SetItem(lc.cache, th[t].key, th[t].value)]
    /\ Goto(t, "set_timestamp")
    /\ UNCHANGED <<now, seqVars, calls, raised, dbVars, msgVars>>

\* set: self._timestamps[key] = time.time()
SetTimestamp(t) ==
    /\ th[t].pc = "set_timestamp"
    /\ lc' = [lc EXCEPT !.timestamps = DictSet(lc.timestamps, th[t].key, now)]
    /\ Return(t)
    /\ UNCHANGED <<now, seqVars, calls, raised, dbVars, msgVars>>

NextThreads ==
    \/ Tick
    \/ \E t \in Threads, key \in Keys :
          \/ Call(t, "get", key, None)
          \/ Call(t, "delete", key, None)
          \/ \E value \in Values : Call(t, "set", key, value)
    \/ \E t \in Threads :
          \/ GetContains(t) \/ GetTimestamp(t) \/ GetPop(t) \/ GetInsert(t)
          \/ DeleteContains(t) \/ DeletePop(t) \/ DeleteTimestamp(t)
          \/ SetContains(t) \/ SetPop(t) \/ SetLen(t) \/ SetPopItem(t)
          \/ SetInsert(t) \/ SetTimestamp(t)

SpecThreads == Init /\ [][NextThreads]_vars

(***************************************************************************)
(* Properties of one LocalCache under sequential use.  In the state after  *)
(* a call, last is the call, prev the OrderedDict the call found, result   *)
(* what it returned; now is still the clock reading the call saw.          *)
(***************************************************************************)
Min(a, b) == IF a < b THEN a ELSE b

\* the keys of an OrderedDict in its order, stale end first
OrderOf(od) == [i \in 1..Len(od) |-> od[i].key]

\* seq restricted to the elements in S, order kept
Restrict(seq, S) == SelectSeq(seq, LAMBDA x : x \in S)

\* e was stored when the call began and no key stored then was touched
\* before it
Oldest(e) ==
    /\ e \in KeysOf(prev)
    /\ \A o \in KeysOf(prev) : touch[e] <= touch[o]

\* every key in S is stored with the value it had when the call began
SameValues(S) ==
    \A o \in S : /\ Contains(lc.cache, o)
                 /\ ValueOf(lc.cache, o) = ValueOf(prev, o)

\* C1: a cache of capacity N >= 1 never stores more than N entries, and
\* after i set calls with pairwise distinct keys (and no other call) it
\* stores exactly min(i, N) entries.
C1_CapacityBound ==
    lc.max_size >= 1 =>
        /\ Len(lc.cache) <= lc.max_size
        /\ onlySets => Len(lc.cache) = Min(calls, lc.max_size)

\* more distinct keys were set than the cache holds
W_C1 ==
    /\ onlySets
    /\ lc.max_size >= 1
    /\ calls > lc.max_size
    /\ Len(lc.cache) = lc.max_size

\* a set of an absent key into a full cache removes exactly the entry whose
\* last touch is the oldest, and keeps every other entry
C2_Evicts ==
    ( /\ last.op = "set" /\ ~last.had
      /\ lc.max_size >= 1
      /\ Len(prev) = lc.max_size )
    => \E e \in KeysOf(prev) :
          /\ Oldest(e)
          /\ KeysOf(lc.cache) = (KeysOf(prev) \ {e}) \cup {last.key}
          /\ Len(lc.cache) = Len(prev)
          /\ SameValues(KeysOf(prev) \ {e})

\* capacity 2: k1 touched by call 3 (the get), k2 by call 2, k3 set by call 4
C2_Scenario1 ==
    \A k1, k2, k3 \in Keys :
        ( /\ lc.max_size = 2 /\ calls = 4
          /\ last.op = "set" /\ last.key = k3 /\ ~last.had
          /\ touch[k1] = 3 /\ touch[k2] = 2 /\ touch[k3] = 4 )
        => KeysOf(lc.cache) = {k1, k3}

\* capacity 2: set(a), set(b), set(c), get(b), set(d)
C2_Scenario2 ==
    \A a, b, c, d \in Keys :
        ( /\ lc.max_size = 2 /\ calls = 5
          /\ last.op = "set" /\ last.key = d /\ ~last.had
          /\ touch[a] = 1 /\ touch[b] = 4 /\ touch[c] = 3 /\ touch[d] = 5 )
        => KeysOf(lc.cache) = {b, d}

C3_TtlExpiry ==
    last.op = "get" =>
        IF ~last.had \/ now - setAt[last.key] > lc.ttl
        THEN result = None
        ELSE result = ValueOf(prev, last.key)

\* a get at age exactly ttl returned the value
W_C3 ==
    /\ last.op = "get" /\ last.had
    /\ result \in Values
    /\ now - setAt[last.key] = lc.ttl

\* C6: set(k, v2) on a stored key k evicts nothing, also in a full cache:
\* the stored keys and the other values are the same afterwards, and get(k)
\* returns v2.
C6_OverwriteKeepsSlot ==
    (last.op = "set" /\ last.had) =>
        /\ KeysOf(lc.cache) = KeysOf(prev)
        /\ Len(lc.cache) = Len(prev)
        /\ SameValues(KeysOf(prev) \ {last.key})
        /\ ValueOf(lc.cache, last.key) = last.value
        /\ get(lc, last.key, now).result = last.value

\* an overwrite with another value in a full cache that holds another key
W_C6 ==
    /\ last.op = "set" /\ last.had
    /\ lc.max_size >= 2
    /\ Len(prev) = lc.max_size
    /\ ValueOf(prev, last.key) # last.value

\* a get that finds its key expired removes the value and the timestamp
C8_ExpiredGet ==
    ( /\ last.op = "get" /\ last.had
      /\ now - setAt[last.key] > lc.ttl )
    => /\ ~Contains(lc.cache, last.key)
       /\ last.key \notin DOMAIN lc.timestamps
       /\ Len(lc.cache) = Len(prev) - 1
       /\ KeysOf(lc.cache) = KeysOf(prev) \ {last.key}
       /\ lc.max_size >= 1 => Len(lc.cache) < lc.max_size

\* a set of a new key into a cache with a free slot evicts nothing
C8_FreeSlot ==
    ( /\ last.op = "set" /\ ~last.had
      /\ Len(prev) < lc.max_size )
    => /\ KeysOf(lc.cache) = KeysOf(prev) \cup {last.key}
       /\ Len(lc.cache) = Len(prev) + 1

\* C8: a get(k) that finds k expired removes k's value and k's timestamp,
\* the entry count drops by one, and the next set of a new key evicts
\* nothing.
C8_ExpiryEvicts ==
    /\ C8_ExpiredGet
    /\ C8_FreeSlot

\* a get found its key expired in a full cache of capacity 2
W_C8 ==
    /\ last.op = "get" /\ last.had /\ result = None
    /\ lc.max_size = 2
    /\ Len(prev) = 2
    /\ Len(lc.cache) = 1
    /\ last.key \notin DOMAIN lc.timestamps

\* the stored keys are in the order of their last touch
C9_OrderIsTouchOrder ==
    \A i, j \in 1..Len(lc.cache) :
        i < j => touch[lc.cache[i].key] < touch[lc.cache[j].key]

\* the key of the call is at the fresh end and the other keys that are
\* still stored are in the order they had
C9_MovedToEnd ==
    /\ Len(lc.cache) >= 1
    /\ lc.cache[Len(lc.cache)].key = last.key
    /\ Restrict(OrderOf(lc.cache), Keys \ {last.key})
         = Restrict(OrderOf(prev), KeysOf(lc.cache) \ {last.key})

\* C9: after a get(k) that returns a value and after a set(k, v), k is at
\* the most-recently-used end and the other stored keys keep their relative
\* order; in every state the stored keys are in the order of their most
\* recent touch.
C9_RecencyOrder ==
    /\ C9_OrderIsTouchOrder
    /\ (last.op = "get" /\ result \in Values) => C9_MovedToEnd
    /\ (last.op = "set" /\ result = None) => C9_MovedToEnd

\* a get returned the value of the key at the stale end of two
W_C9 ==
    /\ last.op = "get" /\ result \in Values
    /\ Len(prev) = 2
    /\ prev[1].key = last.key
    /\ lc.cache[2].key = last.key

\* C10: the keys with a recorded timestamp are the keys with a stored
\* value, so the timestamp table holds at most max_size keys.
C10_BoundedMetadata ==
    lc.max_size >= 1 =>
        /\ DOMAIN lc.timestamps = KeysOf(lc.cache)
        /\ Cardinality(DOMAIN lc.timestamps) <= lc.max_size

\* C12: no LocalCache with a capacity below 1 exists, and no get, set, delete
\* or clear call raises.
C12_FailFast ==
    /\ lc.max_size >= 1
    /\ result # KeyError

\* C14: delete(k) of an absent key changes nothing and raises nothing;
\* delete(k) of a stored key removes k's value and k's timestamp and leaves
\* the other values, their timestamps and their relative order as they were.
C14_DeleteFrame ==
    last.op = "delete" =>
        /\ result = None
        /\ ~last.had => lc = lcPrev
        /\ last.had =>
              /\ KeysOf(lc.cache) = KeysOf(prev) \ {last.key}
              /\ Len(lc.cache) = Len(prev) - 1
              /\ SameValues(KeysOf(prev) \ {last.key})
              /\ OrderOf(lc.cache)
                    = Restrict(OrderOf(prev), Keys \ {last.key})
              /\ DOMAIN lc.timestamps
                    = DOMAIN lcPrev.timestamps \ {last.key}
              /\ \A o \in DOMAIN lc.timestamps :
                    lc.timestamps[o] = lcPrev.timestamps[o]
              /\ lc.max_size = lcPrev.max_size
              /\ lc.ttl = lcPrev.ttl

\* the key at the stale end of two stored keys was deleted
W_C14 ==
    /\ last.op = "delete" /\ last.had
    /\ Len(prev) = 2
    /\ prev[1].key = last.key
    /\ OrderOf(lc.cache) = <<prev[2].key>>
    /\ last.key \notin DOMAIN lc.timestamps

\* C15: after clear() no value and no timestamp is stored, get(k) returns
\* absent for every key stored before, max_size and ttl are as they were,
\* and the object equals a newly constructed one with that max_size and ttl.
C15_ClearIsFresh ==
    last.op = "clear" =>
        /\ lc.cache = <<>>
        /\ DOMAIN lc.timestamps = {}
        /\ \A k \in KeysOf(prev) : get(lc, k, now).result = None
        /\ lc.max_size = lcPrev.max_size
        /\ lc.ttl = lcPrev.ttl
        /\ lc = LocalCache(lcPrev.max_size, lcPrev.ttl)

\* a cache holding two entries was cleared
W_C15 ==
    /\ last.op = "clear"
    /\ Len(prev) = 2
    /\ lc.cache = <<>>
    /\ lc.max_size = 2

\* C19: the timestamp of a stored key is the clock reading of its last set;
\* set(k, v) sets it to the current time, not below what it was; no other
\* call adds or changes a timestamp, and a get that returns a value leaves
\* every timestamp as it was.
C19_CreatedAtOnlyOnSet ==
    /\ \A k \in KeysOf(lc.cache) :
          k \in DOMAIN lc.timestamps /\ lc.timestamps[k] = setAt[k]
    /\ (last.op = "set" /\ result = None) =>
          /\ lc.timestamps[last.key] = now
          /\ last.key \in DOMAIN lcPrev.timestamps =>
                lcPrev.timestamps[last.key] <= lc.timestamps[last.key]
    /\ \A k \in DOMAIN lc.timestamps :
          (last.op # "set" \/ last.key # k) =>
              /\ k \in DOMAIN lcPrev.timestamps
              /\ lc.timestamps[k] = lcPrev.timestamps[k]
    /\ (last.op = "get" /\ result \in Values) =>
          lc.timestamps = lcPrev.timestamps

\* a get returned a value set before the current clock reading
W_C19 ==
    /\ last.op = "get" /\ result \in Values
    /\ lc.timestamps[last.key] < now
    /\ lc.timestamps[last.key] = lcPrev.timestamps[last.key]

\* k was stored when the call began and is expired
Expired(k) ==
    /\ k \in KeysOf(prev)
    /\ now - lcPrev.timestamps[k] > lcPrev.ttl

C21_LiveTimestamp ==
    /\ KeysOf(lc.cache) \subseteq DOMAIN lc.timestamps
    /\ \A k \in KeysOf(lc.cache) : lc.timestamps[k] = setAt[k]
    /\ last.op = "get" =>
          /\ result # KeyError
          /\ last.had =>
                (result = None <=> now - setAt[last.key] > lcPrev.ttl)

\* a key whose timestamp was left behind by an eviction was set again later
W_C21 ==
    /\ last.op = "set" /\ ~last.had
    /\ last.key \in DOMAIN lcPrev.timestamps
    /\ lcPrev.timestamps[last.key] < now
    /\ Contains(lc.cache, last.key)
    /\ lc.timestamps[last.key] = now

(***************************************************************************)
(* Properties of the cached reads of the client.  In the state after a     *)
(* cached read, dbLast tells whether the wrapped function was invoked      *)
(* (invoked), whether the argument is new to the function (first), the     *)
(* earlier call with the argument that invoked the function at most ttl    *)
(* ago with the entry stored ever since (armed), and the user saved for    *)
(* the argument since it was last read (expect).                           *)
(***************************************************************************)
CachedRead == dbLast.op \in {"get_user", "get_user_by_phone"}

\* C4: after save_user(u), the next get_user(u.id) and the next
\* get_user_by_phone(u.phone_number) return u, also when an older record was
\* cached for the id or the phone before.
C4_ReadAfterSave ==
    /\ (dbLast.op = "get_user" /\ dbLast.expect # None)
          => dbResult = dbLast.expect
    /\ ( /\ dbLast.op = "get_user_by_phone" /\ dbLast.expect # None
         /\ Cardinality(WithPhone(dbLast.arg)) = 1 )
          => dbResult = dbLast.expect

\* C5 as stated: whatever the function returned, a second call with the same
\* arguments within ttl and with no eviction in between does not invoke the
\* function again; a call with new arguments invokes it.
C5_MemoAnyValue ==
    /\ (CachedRead /\ dbLast.armed # None) => ~dbLast.invoked
    /\ (CachedRead /\ dbLast.first) => dbLast.invoked

\* C5, amended: when the function returned a value other than None, a
\* second call with the same arguments within ttl and with no eviction in
\* between does not invoke the function again; when it returned None, the
\* second call invokes it again; a call with new arguments invokes it.
C5_MemoNotNone ==
    /\ (CachedRead /\ dbLast.armed # None) =>
          (dbLast.invoked <=> dbLast.armed.value = None)
    /\ (CachedRead /\ dbLast.first) => dbLast.invoked

\* a second call within ttl was served from the cache
W_C5 ==
    /\ CachedRead
    /\ dbLast.armed # None
    /\ dbLast.armed.value # None
    /\ ~dbLast.invoked
    /\ dbResult = dbLast.armed.value

\* C7: with get, set and delete running in several threads on one cache, no
\* call raises and the cache never stores more than max_size entries.
C7_ThreadSafe ==
    lc.max_size >= 1 =>
        /\ ~raised
        /\ Len(lc.cache) <= lc.max_size

(***************************************************************************)
(* Properties of the wrapper when reads fail and outside code writes the   *)
(* caches.  In the state after a cached read, dbPrev holds the two caches  *)
(* the call found, cRead.manual the cache.set made for its key at most ttl *)
(* ago with the entry stored ever since, and cRead.afterFailure whether    *)
(* the call before it with the argument raised, cRead.at the clock reading *)
(* of the call.                                                            *)
(***************************************************************************)
\* the cached function of the last read, and the key of the read
ReadName == dbLast.op

ReadKey == DefaultKey(dbLast.op, dbLast.arg)

\* C11 as stated: after cache.set(key, new_value) with the key of the
\* wrapper, a call with the arguments of the key, within ttl and before an
\* eviction of the key, returns new_value and does not invoke the function,
\* whatever new_value is.
C11_ManualSetAnyValue ==
    (CachedRead /\ cRead.manual # None) =>
        /\ ~dbLast.invoked
        /\ dbResult = cRead.manual.value

\* C11, amended: after cache.set(key, new_value) with the key of the
\* wrapper, a call with the arguments of the key, within ttl and before an
\* eviction of the key, returns new_value and does not invoke the function
\* when new_value is not None, and invokes the function when it is None.
C11_ManualSetNotNone ==
    (CachedRead /\ cRead.manual # None) =>
        IF cRead.manual.value # None
        THEN ~dbLast.invoked /\ dbResult = cRead.manual.value
        ELSE dbLast.invoked

\* a read returned the user that outside code had put in the cache, which
\* is not the user the store holds
W_C11 ==
    /\ dbLast.op = "get_user"
    /\ cRead.manual # None
    /\ cRead.manual.value # None
    /\ ~dbLast.invoked
    /\ dbResult = cRead.manual.value
    /\ dbResult.id \in DOMAIN local_users
    /\ dbResult # local_users[dbResult.id]

\* the cache of the function of the last read, when the call began and now
Found == dbPrev[ReadName]

Left == Caches[ReadName]

\* the key of the last read was stored and expired when the call began
FoundExpired ==
    /\ Contains(Found.cache, ReadKey)
    /\ cRead.at - Found.timestamps[ReadKey] > Found.ttl

\* the key of the last read was stored with the value None and not expired
\* when the call began
FoundNone ==
    /\ Contains(Found.cache, ReadKey)
    /\ cRead.at - Found.timestamps[ReadKey] <= Found.ttl
    /\ ValueOf(Found.cache, ReadKey) = None

\* the next call after a failure invokes the function again, and a call that
\* does not invoke the function never returns a failure
C13_NoStoredFailure ==
    /\ (CachedRead /\ cRead.afterFailure /\ cRead.manual = None) =>
          dbLast.invoked
    /\ (CachedRead /\ ~dbLast.invoked) => dbResult # Failure
    /\ \A i \in 1..Len(get_user_cache.cache) :
          get_user_cache.cache[i].value # Failure
    /\ \A i \in 1..Len(get_user_by_phone_cache.cache) :
          get_user_by_phone_cache.cache[i].value # Failure

\* C13 as stated: a call whose function raises leaves the cache as it found
\* it, apart from the removal of the expired entry of its key; the next call
\* with the arguments invokes the function again.
C13_FailureLeavesCache ==
    /\ (CachedRead /\ dbResult = Failure) =>
          /\ dbLast.invoked
          /\ \/ Left = Found
             \/ FoundExpired /\ Left = delete(Found, ReadKey).self
    /\ C13_NoStoredFailure

\* C13, amended: a call whose function raises stores no entry; it leaves
\* the cache as it found it, apart from the removal of the expired entry of
\* its key, or, when its key is stored with the value None and not expired,
\* apart from the move of that entry to the most-recently-used end; the next
\* call with the arguments invokes the function again.
C13_FailureKeepsEntries ==
    /\ (CachedRead /\ dbResult = Failure) =>
          /\ dbLast.invoked
          /\ \/ Left = Found
             \/ FoundExpired /\ Left = delete(Found, ReadKey).self
             \/ /\ FoundNone
                /\ Left.timestamps = Found.timestamps
                /\ Left.max_size = Found.max_size /\ Left.ttl = Found.ttl
                /\ Left.cache =
                      Append(Pop(Found.cache, ReadKey),
                             [key |-> ReadKey, value |-> None])
    /\ C13_NoStoredFailure

\* the call after a failed one invoked the function and returned its user
W_C13 ==
    /\ CachedRead
    /\ cRead.afterFailure
    /\ dbLast.invoked
    /\ dbResult # None /\ dbResult # Failure
    /\ Contains(Left.cache, ReadKey)

\* every key of od is a key of the cached function name
KeysOfFunction(od, name) == \A i \in 1..Len(od) : od[i].key[1] = name

\* C16: a call of get_user and a cache.set on the cache of get_user leave
\* the cache of get_user_by_phone as it was, contents and order, and the
\* other way round; neither cache holds a key of the other function.
C16_CacheIndependence ==
    /\ dbLast.op \in {"get_user", "get_user.cache.set"} =>
          get_user_by_phone_cache = dbPrev.get_user_by_phone
    /\ dbLast.op \in {"get_user_by_phone", "get_user_by_phone.cache.set"} =>
          get_user_cache = dbPrev.get_user
    /\ KeysOfFunction(get_user_cache.cache, "get_user")
    /\ KeysOfFunction(get_user_by_phone_cache.cache, "get_user_by_phone")

\* a get_user evicted an entry from the full cache of get_user while the
\* cache of get_user_by_phone held an entry
W_C16 ==
    /\ dbLast.op = "get_user" /\ dbLast.invoked
    /\ Len(dbPrev.get_user.cache) = CachedMaxSize
    /\ ~Contains(get_user_cache.cache, dbPrev.get_user.cache[1].key)
    /\ Len(get_user_by_phone_cache.cache) >= 1

(***************************************************************************)
(* Properties of the reads and the saves of the client in local mode.  In  *)
(* the state after a call, usersPrev is the store of users the call found, *)
(* saved the user and the cache_only of a save_user, and cRead.afterClear  *)
(* tells a cached read that clear_cache ran since the read before it with  *)
(* the argument.                                                           *)
(***************************************************************************)

\* C22: a get_user_by_phone(p) that follows, within ttl and with the entry
\* stored ever since, a get_user_by_phone(p) that returned None for want of
\* a user, and that finds a user with phone p created in between, invokes
\* the function and returns that stored user, not the cached absence.
C22_MissNotRemembered ==
    (/\ dbLast.op = "get_user_by_phone"
     /\ dbLast.armed # None
     /\ dbLast.armed.value = None
     /\ WithPhone(dbLast.arg) # {})
    => /\ dbLast.invoked
       /\ dbResult # None
       /\ dbResult \in {local_users[i] : i \in WithPhone(dbLast.arg)}

\* a lookup by phone that returned None, create_user for the phone, and the
\* lookup repeated within ttl returning the created user
W_C22 ==
    /\ dbLast.op = "get_user_by_phone"
    /\ dbLast.armed # None
    /\ dbLast.armed.value = None
    /\ cRead.at - dbLast.armed.at <= get_user_by_phone_cache.ttl
    /\ Contains(dbPrev.get_user_by_phone.cache, ReadKey)
    /\ dbResult # None
    /\ dbResult.phone_number = dbLast.arg

\* what the store holds for the argument of the last cached read
CurrentRecord ==
    IF dbLast.op = "get_user"
    THEN GetUserBody(CHOOSE i \in UserIds : ToString(i) = dbLast.arg)
    ELSE GetUserByPhoneBody(dbLast.arg)

\* C23: the first get_user(id) and the first get_user_by_phone(p) after a
\* clear_cache(), for every id and phone, invoke the function and return
\* the record the store holds.
C23_ClearForcesRead ==
    (CachedRead /\ cRead.afterClear)
    => (dbLast.invoked /\ dbResult = CurrentRecord)

\* a read of an argument that was read and cached before the clear_cache,
\* returning a stored user
W_C23 ==
    /\ CachedRead /\ cRead.afterClear
    /\ ~dbLast.first
    /\ dbLast.invoked
    /\ dbResult # None

\* C25: save_user(u, cache_only=True) leaves the stored users as they were
\* and writes both caches; save_user(u) with cache_only=False stores u
\* under u.id and leaves the other stored users as they were.
C25_CacheOnlySave ==
    saved # None
    => /\ IF saved.cache_only
          THEN local_users = usersPrev
          ELSE /\ DOMAIN local_users = DOMAIN usersPrev \cup {saved.user.id}
               /\ local_users[saved.user.id] = saved.user
               /\ \A i \in DOMAIN usersPrev \ {saved.user.id} :
                     local_users[i] = usersPrev[i]
       /\ \A name \in {"get_user", "get_user_by_phone"} :
             \E k \in KeysOf(Caches[name].cache) :
                ValueOf(Caches[name].cache, k) = saved.user

\* a cache_only save of a user that differs from the stored one
W_C25 ==
    /\ saved # None
    /\ saved.cache_only
    /\ saved.user.id \in DOMAIN usersPrev
    /\ usersPrev[saved.user.id] # saved.user
    /\ local_users = usersPrev
    /\ Caches # dbPrev

(***************************************************************************)
(* Properties of the message operations and of process_message.  In the    *)
(* state after a message operation, msgLast is the operation, msgResult    *)
(* what it returned or raised, msgPrev the store it found.                 *)
(***************************************************************************)
\* C17: when get_completion raises during process_message, process_message
\* raises nothing and returns the fallback text that names the character,
\* and the stored messages and the stored users are as it found them.
C17_CompletionFailureFallback ==
    (msgLast.op = "process_message" /\ msgLast.completionFailed) =>
        /\ msgResult # Failure
        /\ msgResult = Returned(Fallback(msgLast.character))
        /\ msgResult.returned[2] = msgLast.character
        /\ local_messages = msgPrev.messages
        /\ local_users = msgPrev.users

\* get_completion raised for a stored user with a stored message
W_C17 ==
    /\ msgLast.op = "process_message" /\ msgLast.completionFailed
    /\ msgLast.user_id \in DOMAIN local_users
    /\ Len(MessagesOf(msgLast.user_id)) >= 1
    /\ Len(msgSent) >= 3
    /\ msgResult = Returned(Fallback(msgLast.character))

\* C18: append_message, get_recent_messages, get_message_count and
\* clear_user_messages raise nothing when the store fails: they return an
\* empty list, 0 or False.
C18_DatastoreFailureDegrades ==
    /\ msgLast.op \in {"append_message", "get_recent_messages",
                       "get_message_count", "clear_user_messages"} =>
          msgResult # Failure
    /\ (msgLast.op = "get_recent_messages" /\ msgLast.failed) =>
          msgResult = Returned(<<>>)
    /\ (msgLast.op = "get_message_count" /\ msgLast.failed) =>
          msgResult = Returned(0)
    /\ (msgLast.op = "clear_user_messages" /\ msgLast.failed) =>
          msgResult = Returned(FALSE)

(***************************************************************************)
(* Properties of the handler in local mode.  Nothing fails in the store;   *)
(* msgLast.limit is the limit of a get_recent_messages, msgLast.message    *)
(* the text given to handle_message.                                       *)
(***************************************************************************)

\* C24: in the state reset_local_data() leaves, get_user(id) and
\* get_user_by_phone(p) return None for every id and phone, no user has a
\* message, and create_user gives id 1.
C24_ResetLeavesNothing ==
    (dbLast.op = "reset_local_data" /\ msgLast.op = "reset_local_data")
    => /\ \A id \in UserIds :
             wrapper(get_user_cache, DefaultKey("get_user", ToString(id)),
                     GetUserBody(id), now).result = None
       /\ \A p \in Phones :
             wrapper(get_user_by_phone_cache,
                     DefaultKey("get_user_by_phone", p),
                     GetUserByPhoneBody(p), now).result = None
       /\ \A u \in UserIds : MessagesOf(u) = <<>>
       /\ local_messages = EmptyDict
       /\ next_user_id = 1

\* a reset that found a stored user, a cached read of a user still live
\* in its cache, and a stored message
W_C24 ==
    /\ dbLast.op = "reset_local_data" /\ msgLast.op = "reset_local_data"
    /\ usersPrev # EmptyDict
    /\ msgPrev.messages # EmptyDict
    /\ \E i \in 1..Len(dbPrev.get_user.cache) :
          /\ dbPrev.get_user.cache[i].value # None
          /\ dbPrev.get_user.cache[i].key[1] = "get_user"
          /\ now - dbPrev.get_user.timestamps[dbPrev.get_user.cache[i].key]
                <= dbPrev.get_user.ttl

\* C26: handle_message with a character_name that is no key of the
\* catalog returns "Character not found" and raises nothing.
C26_UnknownCharacterReported ==
    (msgLast.op = "handle_message" /\ msgLast.character \notin Characters)
    => (msgResult \notin {TypeError, ValueError, Failure}
        /\ msgResult = Returned(NotFound))

\* C27: in local mode the message_index values of the messages stored for
\* a user are 1..n in the order of insertion, and the message appended
\* for a user without messages has message_index 1.
C27_LocalIndexing ==
    /\ \A u \in DOMAIN local_messages :
          \A i \in 1..Len(local_messages[u]) :
             local_messages[u][i].message_index = i
    /\ (msgLast.op = "append_message" /\ MessagesOf(msgLast.user_id) # <<>>
        /\ (msgLast.user_id \notin DOMAIN msgPrev.messages
            \/ msgPrev.messages[msgLast.user_id] = <<>>))
       => msgResult.returned.message_index = 1

\* an append for a user whose messages were cleared, another user having
\* messages too
W_C27 ==
    /\ msgLast.op = "append_message"
    /\ msgLast.user_id \notin DOMAIN msgPrev.messages
    /\ Len(MessagesOf(msgLast.user_id)) = 1
    /\ MessagesOf(msgLast.user_id)[1].id = 3
    /\ MessagesOf(msgLast.user_id)[1].message_index = 1
    /\ \E u \in DOMAIN local_messages : u # msgLast.user_id

HarnessFlow ==
    /\ msgLast.op = "handle_message"
    /\ msgLast.character \in Characters
    /\ dbLast.op = "save_user"
    /\ saved.user.id = msgLast.user_id
    /\ ~saved.cache_only
    /\ MessagesOf(msgLast.user_id) # <<>>
    /\ LET ms == MessagesOf(msgLast.user_id)
       IN /\ ms[Len(ms)].role = "user"
          /\ ms[Len(ms)].content = msgLast.message
          /\ Cardinality({i \in 1..Len(ms) :
                            /\ ms[i].role = "user"
                            /\ ms[i].content = msgLast.message}) = 1

\* C29: in the flow of the harness the list passed to the completion
\* client begins with the system prompt, ends with the current user text,
\* and holds the current user text once.
C29_CurrentMessageOnce ==
    HarnessFlow
    => /\ Len(msgSent) >= 2
       /\ msgSent[1].role = "system"
       /\ msgSent[1].content = Prompt(msgLast.character)
       /\ msgSent[Len(msgSent)].role = "user"
       /\ msgSent[Len(msgSent)].content = msgLast.message
       /\ Cardinality({i \in 1..Len(msgSent) :
                         /\ msgSent[i].role = "user"
                         /\ msgSent[i].content = msgLast.message}) = 1

(***************************************************************************)
(* Properties of send_message.  msgLast.delivered tells that the message   *)
(* was printed or that the POST was accepted.                              *)
(***************************************************************************)

\* C30: send_message returns True if the message was delivered and False
\* otherwise; the assistant message is appended once to the history of the
\* user when it returns True, and the history is as it was when the
\* delivery failed.
C30_SendReportsDelivery ==
    msgLast.op = "send_message"
    => /\ msgResult = Returned(msgLast.delivered)
       /\ msgResult = Returned(TRUE) =>
             /\ Len(MessagesOf(msgLast.user_id)) =
                   1 + (IF msgLast.user_id \in DOMAIN msgPrev.messages
                        THEN Len(msgPrev.messages[msgLast.user_id]) ELSE 0)
             /\ LET ms == MessagesOf(msgLast.user_id)
                IN ms[Len(ms)].role = "assistant"
       /\ ~msgLast.delivered => local_messages = msgPrev.messages
====
